---- MODULE Spec2Model ----
(***************************************************************************)
(* Model of the ironbar process root (src/main.rs): the activation         *)
(* barrier between the GTK "activate" signal and the bar lifecycle task,   *)
(* the output-event loop of Ironbar::start, and load_output_bars.          *)
(*                                                                         *)
(* Option<T> is modelled as a sequence of length at most one:              *)
(* <<>> is None and <<v>> is Some(v).                                      *)
(***************************************************************************)
EXTENDS Integers, Sequences, FiniteSets, TLC

\* ------------------------------------------------------------------ bounds
\* Number of output events the wayland client delivers in one run.
MaxEvents == 3
\* Number of times the toolkit emits the activate signal in one run.
MaxActivations == 2

\* ------------------------------------------------------------- input sets
MonitorNames == {"A", "B"}

\* Logical positions of outputs; P0 is the origin, `unwrap_or_default`.
P0 == <<0, 0>>
P1 == <<1, 0>>

\* The monitors the display backend knows, as the set of points that
\* `monitor_at_point` resolves to a monitor.
Displays == {{P0, P1}, {P0}, {}}

Some(v) == <<v>>
NoneV == <<>>

\* OutputInfo: the fields the lifecycle manager reads.
Output(name, logical_position) ==
    [name |-> name, logical_position |-> logical_position]

\* The outputs of New events: unnamed, "A" at the origin or at P1, "B".
NewOutputs ==
    {Output(NoneV, NoneV), Output(Some("A"), NoneV), Output(Some("A"), Some(P1)),
     Output(Some("B"), NoneV)}

\* Update and Destroyed never read the position, so one position stands
\* for all of them.
NamedOrNot == {Output(n, NoneV) : n \in {NoneV} \cup {Some(m) : m \in MonitorNames}}

\* The output events the monitor may deliver.
OutputEvents ==
    {[event_type |-> "New", output |-> o] : o \in NewOutputs}
    \cup {[event_type |-> "Destroyed", output |-> o] : o \in NamedOrNot}
    \cup {[event_type |-> "Update", output |-> Output(Some("A"), NoneV)]}

\* A bar configuration: only its name reaches the registry.
BarConfig(n) == [name |-> n]

Single(c) == [kind |-> "Single", config |-> c]
Multiple(cs) == [kind |-> "Multiple", configs |-> cs]

\* The per-monitor entries tried for monitor "A"; "B" is never listed.
MonitorEntries ==
    {Single(BarConfig("x")),
     Multiple(<<>>),
     Multiple(<<BarConfig("x"), BarConfig("y")>>),
     Multiple(<<BarConfig("y"), BarConfig("y")>>)}

\* Config: the default regions (present or not), the name of the default
\* bar and the optional per-monitor map.
Regions == [start : BOOLEAN, center : BOOLEAN, end : BOOLEAN]

Config(regions, monitors) ==
    [start |-> regions.start, center |-> regions.center, end |-> regions.end,
     name |-> "x", monitors |-> monitors]

\* Every combination of default regions without a map and with a single
\* entry; the list entries with no default region and with `start` alone.
Configs ==
    {Config(r, m) : r \in Regions,
                    m \in {NoneV, Some("A" :> Single(BarConfig("x")))}}
    \cup {Config(r, Some("A" :> e)) :
            r \in {g \in Regions : ~g.center /\ ~g.end},
            e \in MonitorEntries}

\* ------------------------------------------------------------------ state
VARIABLES
    config,        \* Ironbar.config
    display,       \* the display backend's monitors (points with a monitor)
    bars,          \* Ironbar.bars, the Bar Registry
    running,       \* the `running` flag of Ironbar::start
    activations,   \* activate signals emitted so far
    activate_chan, \* hold tokens in flight on (activate_tx, activate_rx)
    hold,          \* the lifecycle task owns a hold token (`_hold`)
    task,          \* position of the lifecycle task
    proc,          \* the process: "running", "blocked", "panicked", "exited"
    rx_outputs,    \* output events queued on the subscription
    arrivals,      \* history: events delivered so far
    handled,       \* history: events taken off rx_outputs so far
    last,          \* history: the last handled event, the registry before it
                   \* and how handling ended
    live,          \* history: names with a delivered New and no later Destroyed
    waiters,       \* shutdown waiters spawned by the activate handler
    handlers       \* interrupt handlers installed by the activate handler

\* The label module's controller/widget bridge (src/modules/label.rs).
VARIABLES
    sent,          \* history: the values the controller has sent, in order
    sub_rx,        \* per subscriber: the values queued on its receive handle
    sub_got        \* per subscriber: the values its handler has been run with

\* The shutdown path of the activate handler (main.rs:162-178).
VARIABLES
    ipc,           \* the build has the "ipc" feature
    sig_chan,      \* wake-ups queued on the handler-to-waiter channel (tx, rx)
    waiter_pc,     \* position of the shutdown waiter's closure
    ipc_released,  \* Ipc::shutdown has removed the IPC resources
    waiter_exit,   \* the exit code the waiter ended the process with
    interrupts     \* history: interrupt signals delivered to the process

\* Ironbar::unique_id (main.rs:229-234).
VARIABLES
    COUNTER,       \* the static AtomicUsize
    id_pc,         \* per thread: position in a call of unique_id
    id_val,        \* per thread: the value fetch_add gave the call
    id_floor,      \* history, per thread: the greatest value returned before
                   \* the thread's current call began
    id_returned    \* history: the calls that returned, in order of return,
                   \* each with its value and its floor

\* Ironbar::runtime and its callers (main.rs:222-227, 375-409).
VARIABLES
    RUNTIME,         \* the static OnceLock: NoneV, or Some(runtime)
    rt_initializer,  \* the thread running the lock's initialiser, if any
    rt_pc,           \* per thread: position in a call of the accessor
    rt_via,          \* per thread: the function the accessor was reached by
    rt_got,          \* per thread: the handle its last call returned
    rt_created,      \* history: runtimes built so far
    rt_calls         \* history: calls of the accessor begun so far

\* IronbarGtkExt::geometry (gtk_helpers.rs:37-70).
VARIABLES
    widget,          \* the layout state the query reads
    geometry_result  \* NoneV, or Some(outcome of the last query) with the
                     \* orientation it was made for

lifecycle_vars ==
    <<config, display, bars, running, activations, activate_chan, hold,
      task, proc, rx_outputs, arrivals, handled, last, live, waiters, handlers>>

bridge_vars == <<sent, sub_rx, sub_got>>

shutdown_vars ==
    <<ipc, sig_chan, waiter_pc, ipc_released, waiter_exit, interrupts>>

id_vars == <<COUNTER, id_pc, id_val, id_floor, id_returned>>

runtime_vars ==
    <<RUNTIME, rt_initializer, rt_pc, rt_via, rt_got, rt_created, rt_calls>>

geometry_vars == <<widget, geometry_result>>

\* Everything but the lifecycle manager's state.
aux_vars == <<bridge_vars, shutdown_vars, id_vars, runtime_vars, geometry_vars>>

vars == <<lifecycle_vars, aux_vars>>

NoLast == [kind |-> "None"]

\* The subscribers of one module's update stream: the label widget and a
\* second, independent one (a popup reading the same stream).
Subscribers == {"label", "popup"}

InitBridge ==
    /\ sent = <<>>
    /\ sub_rx = [s \in Subscribers |-> <<>>]
    /\ sub_got = [s \in Subscribers |-> <<>>]

\* The shutdown path before the activate handler has run, for a build with
\* (enabled) or without the "ipc" feature.
InitShutdown(enabled) ==
    /\ ipc = enabled
    /\ sig_chan = 0
    /\ waiter_pc = "waiting"
    /\ ipc_released = FALSE
    /\ waiter_exit = <<>>
    /\ interrupts = 0

\* The threads that use the process-wide services: the UI thread and two
\* threads of the runtime.
Threads == {"ui", "worker1", "worker2"}

InitId ==
    /\ COUNTER = 1
    /\ id_pc = [t \in Threads |-> "idle"]
    /\ id_val = [t \in Threads |-> 0]
    /\ id_floor = [t \in Threads |-> 0]
    /\ id_returned = <<>>

InitRuntime ==
    /\ RUNTIME = NoneV
    /\ rt_initializer = NoneV
    /\ rt_pc = [t \in Threads |-> "idle"]
    /\ rt_via = [t \in Threads |-> "runtime"]
    /\ rt_got = [t \in Threads |-> NoneV]
    /\ rt_created = 0
    /\ rt_calls = 0

\* gtk::Allocation: the extents the query reads.
Allocation(width, height) == [width |-> width, height |-> height]

\* A widget as the query sees it: its allocation, its root (with the root's
\* allocation) if it has one, and what translate_coordinates to the root
\* gives for the widget's origin.
WidgetOf(allocation, root, translate) ==
    [allocation |-> allocation, root |-> root, translate |-> translate]

Allocations == {Allocation(w, h) : w \in {10, 20, 30}, h \in {3, 4}}
RootAllocations == {Allocation(100, 30), Allocation(30, 100)}
Translations == {NoneV, Some(<<5, 6>>), Some(<<6, 0>>)}

\* A widget in a window, and a widget that is in no window and so has no
\* root to translate to.
Widgets ==
    {WidgetOf(a, Some(r), t) :
        a \in Allocations, r \in RootAllocations, t \in Translations}
    \cup {WidgetOf(a, NoneV, NoneV) : a \in Allocations}

InitGeometry(widgets) ==
    /\ widget \in widgets
    /\ geometry_result = NoneV

InitAux ==
    /\ InitBridge
    /\ InitShutdown(FALSE)
    /\ InitId
    /\ InitRuntime
    /\ InitGeometry({WidgetOf(Allocation(10, 3), NoneV, NoneV)})

InitLifecycle ==
    /\ config \in Configs
    /\ display \in Displays
    /\ bars = <<>>
    /\ running = FALSE
    /\ activations = 0
    /\ activate_chan = 0
    /\ hold = FALSE
    /\ task = "AwaitingActivation"
    /\ proc = "running"
    /\ rx_outputs = <<>>
    /\ arrivals = 0
    /\ handled = 0
    /\ last = NoLast
    /\ live = {}
    /\ waiters = 0
    /\ handlers = 0

Init == InitLifecycle /\ InitAux

\* ------------------------------------------------------- pure functions
Ok(v) == [kind |-> "Ok", value |-> v]
Err == [kind |-> "Err"]
Panic == [kind |-> "Panic"]

\* A Bar, as the registry sees it: Bar::monitor_name() and Bar::name().
Bar(monitor_name, name) == [monitor_name |-> monitor_name, name |-> name]

\* output.logical_position.unwrap_or_default()
position(output) ==
    IF output.logical_position = NoneV THEN P0 ELSE output.logical_position[1]

\* display.monitor_at_point(pos.0, pos.1)
monitor_at_point(d, pos) == IF pos \in d THEN Some(pos) ELSE NoneV

\* The default-bar test reading `start` alone.
show_default_bar_start_only(cfg) == cfg.start

\* config.start.is_some() || config.center.is_some() || config.end.is_some()
show_default_bar(cfg) == cfg.start \/ cfg.center \/ cfg.end

\* config.monitors.as_ref().and_then(|config| config.get(monitor_name))
monitor_entry(cfg, monitor_name) ==
    IF cfg.monitors = NoneV THEN NoneV
    ELSE LET map == cfg.monitors[1]
         IN  IF monitor_name \in DOMAIN map THEN Some(map[monitor_name])
             ELSE NoneV

\* A resolution in which a configured default takes precedence over the
\* monitor's own entry.
effective_configs_default_first(cfg, monitor_name) ==
    LET entry == monitor_entry(cfg, monitor_name)
    IN  IF show_default_bar(cfg) THEN <<BarConfig(cfg.name)>>
        ELSE IF entry = NoneV THEN <<>>
        ELSE IF entry[1].kind = "Single" THEN <<entry[1].config>>
        ELSE entry[1].configs

\* The bar configurations the match of load_output_bars creates bars for,
\* in creation order.
effective_configs(cfg, monitor_name) ==
    LET entry == monitor_entry(cfg, monitor_name)
    IN  IF entry # NoneV
        THEN IF entry[1].kind = "Single" THEN <<entry[1].config>>
             ELSE entry[1].configs
        ELSE IF show_default_bar(cfg) THEN <<BarConfig(cfg.name)>>
             ELSE <<>>

\* create_bar: a Bar bound to the monitor name and named by its
\* configuration, or an error.
create_bar(monitor_name, bar_config, succeeds) ==
    IF succeeds THEN Ok(Bar(monitor_name, bar_config.name)) ELSE Err

\* A collect that pushes each new bar to the front of the result.
RECURSIVE collect_reversed(_, _, _, _)
collect_reversed(monitor_name, configs, i, fail_at) ==
    IF i > Len(configs) THEN Ok(<<>>)
    ELSE LET r == create_bar(monitor_name, configs[i], i # fail_at)
         IN  IF r.kind = "Err" THEN Err
             ELSE LET rest == collect_reversed(monitor_name, configs, i + 1,
                                               fail_at)
                  IN  IF rest.kind = "Err" THEN Err
                      ELSE Ok(rest.value \o <<r.value>>)

\* A collect that stops at the first error and keeps the bars made so far.
RECURSIVE collect_partial(_, _, _, _)
collect_partial(monitor_name, configs, i, fail_at) ==
    IF i > Len(configs) THEN Ok(<<>>)
    ELSE LET r == create_bar(monitor_name, configs[i], i # fail_at)
         IN  IF r.kind = "Err" THEN Ok(<<>>)
             ELSE LET rest == collect_partial(monitor_name, configs, i + 1,
                                              fail_at)
                  IN  Ok(<<r.value>> \o rest.value)

\* configs.iter().map(create_bar).collect::<Result<_>>(): the bars in
\* order, or the first error.  fail_at is the index of the creation that
\* fails, 0 when none does.
RECURSIVE collect(_, _, _, _)
collect(monitor_name, configs, i, fail_at) ==
    IF i > Len(configs) THEN Ok(<<>>)
    ELSE LET r == create_bar(monitor_name, configs[i], i # fail_at)
         IN  IF r.kind = "Err" THEN Err
             ELSE LET rest == collect(monitor_name, configs, i + 1, fail_at)
                  IN  IF rest.kind = "Err" THEN Err
                      ELSE Ok(<<r.value>> \o rest.value)

\* load_output_bars with the monitor looked up before the name is checked.
load_output_bars_lookup_first(cfg, d, output, fail_at) ==
    IF monitor_at_point(d, position(output)) = NoneV THEN Panic
    ELSE IF output.name = NoneV THEN Err
    ELSE collect(output.name[1], effective_configs(cfg, output.name[1]),
                 1, fail_at)

\* load_output_bars with the monitor looked up only when there is a bar to
\* create.
load_output_bars_lazy_lookup(cfg, d, output, fail_at) ==
    IF output.name = NoneV THEN Err
    ELSE LET monitor_name == output.name[1]
             configs == effective_configs(cfg, monitor_name)
         IN  IF configs = <<>> THEN Ok(<<>>)
             ELSE IF monitor_at_point(d, position(output)) = NoneV THEN Panic
             ELSE collect(monitor_name, configs, 1, fail_at)

\* load_output_bars(ironbar, app, output)
load_output_bars(cfg, d, output, fail_at) ==
    IF output.name = NoneV THEN Err
    ELSE LET monitor_name == output.name[1]
             monitor == monitor_at_point(d, position(output))
         IN  IF monitor = NoneV THEN Panic
             ELSE collect(monitor_name, effective_configs(cfg, monitor_name),
                          1, fail_at)

\* The number of create_bar calls load_output_bars can reach for `output`.
creations(cfg, output) ==
    IF output.name = NoneV THEN 0
    ELSE Len(effective_configs(cfg, output.name[1]))

\* A lookup-then-delete in place of the filter: only the first bar of the
\* monitor is removed.
RECURSIVE retain_first_only(_, _)
retain_first_only(bs, name) ==
    IF bs = <<>> THEN <<>>
    ELSE IF Head(bs).monitor_name # name
         THEN <<Head(bs)>> \o retain_first_only(Tail(bs), name)
         ELSE Tail(bs)

\* The filter with its predicate inverted (== in place of !=).
RECURSIVE retain_inverted(_, _)
retain_inverted(bs, name) ==
    IF bs = <<>> THEN <<>>
    ELSE IF Head(bs).monitor_name = name
         THEN <<Head(bs)>> \o retain_inverted(Tail(bs), name)
         ELSE retain_inverted(Tail(bs), name)

\* The filter comparing the bar's own name, not its monitor name.
RECURSIVE retain_by_bar_name(_, _)
retain_by_bar_name(bs, name) ==
    IF bs = <<>> THEN <<>>
    ELSE IF Head(bs).name # name
         THEN <<Head(bs)>> \o retain_by_bar_name(Tail(bs), name)
         ELSE retain_by_bar_name(Tail(bs), name)

\* Vec::retain(|bar| bar.monitor_name() != name): one pass over the
\* registry, keeping the bars of other monitors.
RECURSIVE retain(_, _)
retain(bs, name) ==
    IF bs = <<>> THEN <<>>
    ELSE IF Head(bs).monitor_name # name
         THEN <<Head(bs)>> \o retain(Tail(bs), name)
         ELSE retain(Tail(bs), name)

\* Vec::append(&mut new_bars)
append(bs, new_bars) == bs \o new_bars

\* ---------------------------------------------------------------- actions
Alive == proc \in {"running", "blocked"}

Handled(event, result) ==
    [kind |-> "Event", event |-> event, before |-> bars, result |-> result]

\* The live-output history after `event` is delivered.
LiveAfter(event) ==
    IF event.output.name = NoneV THEN live
    ELSE IF event.event_type = "New" THEN live \cup {event.output.name[1]}
    ELSE IF event.event_type = "Destroyed" THEN live \ {event.output.name[1]}
    ELSE live

\* The wayland client delivers an output event to the subscription.
Arrive ==
    /\ Alive
    /\ task # "Exited"
    /\ arrivals < MaxEvents
    /\ \E e \in OutputEvents :
         /\ rx_outputs' = Append(rx_outputs,
                [event_type |-> e.event_type, output |-> e.output,
                 seq |-> arrivals + 1])
         /\ live' = LiveAfter(e)
    /\ arrivals' = arrivals + 1
    /\ UNCHANGED <<config, display, bars, running, activations, activate_chan,
                   hold, task, proc, handled, last, waiters,
                   handlers>>
    /\ UNCHANGED aux_vars

\* An activate handler without the `running` check: every signal
\* initialises.
ActivateEveryTime ==
    /\ proc = "running"
    /\ activations < MaxActivations
    /\ activations' = activations + 1
    /\ running' = TRUE
    /\ \E located \in BOOLEAN :
         IF located
         THEN /\ waiters' = waiters + 1
              /\ handlers' = handlers + 1
              /\ activate_chan' = activate_chan + 1
              /\ proc' = proc
         ELSE /\ proc' = "exited"
              /\ UNCHANGED <<activate_chan, waiters, handlers>>
    /\ UNCHANGED <<config, display, bars, hold, task, rx_outputs, arrivals,
                   handled, last, live>>
    /\ UNCHANGED aux_vars

\* The toolkit emits "activate": the connect_activate closure runs on the
\* UI thread.  located: the style path could be resolved.
Activate ==
    /\ proc = "running"
    /\ activations < MaxActivations
    /\ activations' = activations + 1
    /\ IF running
       THEN UNCHANGED <<running, proc, activate_chan, waiters, handlers>>
       ELSE /\ running' = TRUE
            /\ \E located \in BOOLEAN :
                 IF located
                 THEN /\ waiters' = waiters + 1
                      /\ handlers' = handlers + 1
                      /\ activate_chan' = activate_chan + 1
                      /\ proc' = proc
                 ELSE /\ proc' = "exited"
                      /\ UNCHANGED <<activate_chan, waiters, handlers>>
    /\ UNCHANGED <<config, display, bars, hold, task, rx_outputs, arrivals,
                   handled, last, live>>
    /\ UNCHANGED aux_vars

\* A lifecycle task that goes on to the loop whether or not a token is there
\* (a try_recv in place of the blocking recv).
ReceiveActivationNoWait ==
    /\ proc = "running"
    /\ task = "AwaitingActivation"
    /\ hold' = (activate_chan > 0)
    /\ activate_chan' = IF activate_chan > 0 THEN activate_chan - 1 ELSE 0
    /\ task' = "Ready"
    /\ UNCHANGED <<config, display, bars, running, activations, proc,
                   rx_outputs, arrivals, handled, last, live, waiters, handlers>>
    /\ UNCHANGED aux_vars

\* The lifecycle task is polled for the first time: activate_rx.recv().
\* With no token in the channel the receive blocks the UI thread.
ReceiveActivation ==
    /\ proc = "running"
    /\ task = "AwaitingActivation"
    /\ IF activate_chan > 0
       THEN /\ activate_chan' = activate_chan - 1
            /\ hold' = TRUE
            /\ task' = "Ready"
            /\ proc' = proc
               ELSE /\ proc' = "blocked"
            /\ UNCHANGED <<activate_chan, hold, task>>
    /\ UNCHANGED <<config, display, bars, running, activations, rx_outputs,
                   arrivals, handled, last, live, waiters, handlers>>
    /\ UNCHANGED aux_vars

\* rx_outputs.recv().await yields the next event.
CanReceive == proc = "running" /\ task = "Ready" /\ rx_outputs # <<>>

\* A receive that yields the newest queued event instead of the oldest.
NewestEvent == rx_outputs[Len(rx_outputs)]

\* The event the loop receives next.
NextEvent == Head(rx_outputs)

\* A New arm that unwraps the result: an error ends the task.
HandleNewErrorFatal ==
    /\ CanReceive
    /\ NextEvent.event_type = "New"
    /\ \E fail_at \in 0..creations(config, NextEvent.output) :
         LET r == load_output_bars(config, display, NextEvent.output, fail_at)
         IN  /\ bars' = IF r.kind = "Ok" THEN append(bars, r.value) ELSE bars
             /\ proc' = IF r.kind # "Ok" THEN "panicked" ELSE proc
             /\ last' = Handled(NextEvent,
                           IF r.kind = "Ok" THEN "Appended"
                           ELSE IF r.kind = "Err" THEN "Error" ELSE "Panic")
    /\ rx_outputs' = Tail(rx_outputs)
    /\ handled' = handled + 1
    /\ UNCHANGED <<config, display, running, activations, activate_chan, hold,
                   task, arrivals, live, waiters, handlers>>
    /\ UNCHANGED aux_vars

\* OutputEventType::New
HandleNew ==
    /\ CanReceive
    /\ NextEvent.event_type = "New"
    /\ \E fail_at \in 0..creations(config, NextEvent.output) :
         LET r == load_output_bars(config, display, NextEvent.output, fail_at)
         IN  /\ bars' = IF r.kind = "Ok" THEN append(bars, r.value) ELSE bars
             /\ proc' = IF r.kind = "Panic" THEN "panicked" ELSE proc
             /\ last' = Handled(NextEvent,
                           IF r.kind = "Ok" THEN "Appended"
                           ELSE IF r.kind = "Err" THEN "Error" ELSE "Panic")
    /\ rx_outputs' = Tail(rx_outputs)
    /\ handled' = handled + 1
    /\ UNCHANGED <<config, display, running, activations, activate_chan, hold,
                   task, arrivals, live, waiters, handlers>>
    /\ UNCHANGED aux_vars

\* OutputEventType::Destroyed
HandleDestroyed ==
    /\ CanReceive
    /\ NextEvent.event_type = "Destroyed"
    /\ IF NextEvent.output.name = NoneV
       THEN /\ bars' = bars
            /\ last' = Handled(NextEvent, "Ignored")
       ELSE /\ bars' = retain(bars, NextEvent.output.name[1])
            /\ last' = Handled(NextEvent, "Filtered")
    /\ rx_outputs' = Tail(rx_outputs)
    /\ handled' = handled + 1
    /\ UNCHANGED <<config, display, running, activations, activate_chan, hold,
                   task, proc, arrivals, live, waiters,
                   handlers>>
    /\ UNCHANGED aux_vars

\* An Update handled the way Destroyed is: the monitor's bars are dropped.
HandleUpdateAsDestroyed ==
    /\ CanReceive
    /\ NextEvent.event_type = "Update"
    /\ bars' = IF NextEvent.output.name = NoneV THEN bars
               ELSE retain(bars, NextEvent.output.name[1])
    /\ last' = Handled(NextEvent, "Noop")
    /\ rx_outputs' = Tail(rx_outputs)
    /\ handled' = handled + 1
    /\ UNCHANGED <<config, display, running, activations, activate_chan,
                   hold, task, proc, arrivals, live, waiters, handlers>>
    /\ UNCHANGED aux_vars

\* OutputEventType::Update
HandleUpdate ==
    /\ CanReceive
    /\ NextEvent.event_type = "Update"
    /\ last' = Handled(NextEvent, "Noop")
    /\ rx_outputs' = Tail(rx_outputs)
    /\ handled' = handled + 1
    /\ UNCHANGED <<config, display, bars, running, activations, activate_chan,
                   hold, task, proc, arrivals, live,
                   waiters, handlers>>
    /\ UNCHANGED aux_vars

\* The subscription's sending side has gone away and the queue is drained:
\* rx_outputs.recv().await yields Err and the while-let loop ends.
LoopExit ==
    /\ proc = "running"
    /\ task = "Ready"
    /\ rx_outputs = <<>>
    /\ task' = "Exited"
    /\ UNCHANGED <<config, display, bars, running, activations, activate_chan,
                   hold, proc, rx_outputs, arrivals, handled, last,
                   live, waiters, handlers>>
    /\ UNCHANGED aux_vars

Next ==
    \/ Arrive
    \/ Activate
    \/ ReceiveActivation
    \/ HandleNew
    \/ HandleDestroyed
    \/ HandleUpdate
    \/ LoopExit

Spec == Init /\ [][Next]_vars

\* ======================================================= module bridge
\* The label module (src/modules/label.rs): the controller sends an Update
\* for every value of the label's dynamic string, and every subscriber of
\* the context runs its handler with each value.

\* Number of values the controller sends in one run.
MaxUpdates == 3

\* The values dynamic_string yields.
LabelValues == {"a", "b"}

\* The lifecycle manager at rest, under one configuration.
IdleLifecycle ==
    /\ InitLifecycle
    /\ config = Config([start |-> TRUE, center |-> FALSE, end |-> FALSE], NoneV)
    /\ display = {P0, P1}

not_bridge_vars ==
    <<lifecycle_vars, shutdown_vars, id_vars, runtime_vars, geometry_vars>>

\* ModuleUpdateEvent::Update(string)
Update(string) == [type |-> "Update", value |-> string]

\* WidgetContext: an event sent on tx reaches every receive handle that
\* subscribe() has given out, as the event's value.
fan_out(rx, event) == [s \in DOMAIN rx |-> Append(rx[s], event.value)]

\* spawn_controller: the dynamic_string callback sends Update(string).
ControllerSend ==
    /\ Len(sent) < MaxUpdates
    /\ \E string \in LabelValues :
         /\ sent' = Append(sent, string)
         /\ sub_rx' = fan_out(sub_rx, Update(string))
    /\ UNCHANGED sub_got
    /\ UNCHANGED not_bridge_vars

\* A receive that yields the newest value and discards the older ones.
ReceiveLatest(s) ==
    /\ sub_rx[s] # <<>>
    /\ sub_got' = [sub_got EXCEPT ![s] = Append(@, sub_rx[s][Len(sub_rx[s])])]
    /\ sub_rx' = [sub_rx EXCEPT ![s] = <<>>]
    /\ UNCHANGED sent
    /\ UNCHANGED not_bridge_vars

\* glib_recv!(context.subscribe(), string => ...): the UI loop runs the
\* subscriber's handler with the next value of its receive handle.
Receive(s) ==
    /\ sub_rx[s] # <<>>
    /\ sub_got' = [sub_got EXCEPT ![s] = Append(@, Head(sub_rx[s]))]
    /\ sub_rx' = [sub_rx EXCEPT ![s] = Tail(@)]
    /\ UNCHANGED sent
    /\ UNCHANGED not_bridge_vars

\* label.set_markup(&string): the markup the label shows.
markup ==
    IF sub_got["label"] = <<>> THEN NoneV
    ELSE Some(sub_got["label"][Len(sub_got["label"])])

NextBridge ==
    \/ ControllerSend
    \/ \E s \in Subscribers : Receive(s)

\* Every part of the process at rest.
Idle == IdleLifecycle /\ InitAux

SpecBridge == Idle /\ [][NextBridge]_vars

\* ============================================================ shutdown
\* The interrupt handler and the shutdown waiter the activate handler sets
\* up, next to the lifecycle manager.

\* Number of interrupt signals delivered in one run.
MaxInterrupts == 2

not_shutdown_vars == <<bridge_vars, id_vars, runtime_vars, geometry_vars>>

\* The process receives an interrupt signal.  With the ctrlc handler
\* installed the handler sends () on tx; before that the signal's default
\* disposition ends the process.
Interrupt ==
    /\ Alive
    /\ interrupts < MaxInterrupts
    /\ interrupts' = interrupts + 1
    /\ IF handlers >= 1
       THEN /\ sig_chan' = sig_chan + 1
            /\ proc' = proc
       ELSE /\ proc' = "killed"
            /\ sig_chan' = sig_chan
    /\ UNCHANGED <<ipc, waiter_pc, ipc_released, waiter_exit>>
    /\ UNCHANGED <<config, display, bars, running, activations, activate_chan,
                   hold, task, rx_outputs, arrivals, handled, last, live,
                   waiters, handlers>>
    /\ UNCHANGED not_shutdown_vars

\* rx.recv() of the waiter returns: the waiter is woken.
WaiterRecv ==
    /\ Alive
    /\ waiters >= 1
    /\ waiter_pc = "waiting"
    /\ sig_chan > 0
    /\ sig_chan' = sig_chan - 1
    /\ waiter_pc' = "woken"
    /\ UNCHANGED <<ipc, ipc_released, waiter_exit, interrupts>>
    /\ UNCHANGED lifecycle_vars
    /\ UNCHANGED not_shutdown_vars

\* A waiter that leaves the IPC resources in place.
WaiterCleanupSkipped ==
    /\ Alive
    /\ waiter_pc = "woken"
    /\ waiter_pc' = "cleaned"
    /\ UNCHANGED <<ipc, ipc_released, sig_chan, waiter_exit, interrupts>>
    /\ UNCHANGED lifecycle_vars
    /\ UNCHANGED not_shutdown_vars

\* info!("Shutting down"); #[cfg(feature = "ipc")] Ipc::shutdown(ipc_path)
WaiterCleanup ==
    /\ Alive
    /\ waiter_pc = "woken"
    /\ ipc_released' = (ipc \/ ipc_released)
    /\ waiter_pc' = "cleaned"
    /\ UNCHANGED <<ipc, sig_chan, waiter_exit, interrupts>>
    /\ UNCHANGED lifecycle_vars
    /\ UNCHANGED not_shutdown_vars

\* exit(0)
WaiterExit ==
    /\ Alive
    /\ waiter_pc = "cleaned"
    /\ proc' = "exited"
    /\ waiter_exit' = Some(0)
    /\ UNCHANGED <<ipc, sig_chan, waiter_pc, ipc_released, interrupts>>
    /\ UNCHANGED <<config, display, bars, running, activations, activate_chan,
                   hold, task, rx_outputs, arrivals, handled, last, live,
                   waiters, handlers>>
    /\ UNCHANGED not_shutdown_vars

\* The process at rest, built with or without the "ipc" feature, on a
\* display with a monitor at the origin only.
InitShutdownSpec ==
    /\ InitLifecycle
    /\ config = Config([start |-> TRUE, center |-> FALSE, end |-> FALSE], NoneV)
    /\ display = {P0}
    /\ InitBridge
    /\ InitId
    /\ InitRuntime
    /\ InitGeometry({WidgetOf(Allocation(10, 3), NoneV, NoneV)})
    /\ \E enabled \in BOOLEAN : InitShutdown(enabled)

NextShutdown ==
    \/ Arrive
    \/ Activate
    \/ ReceiveActivation
    \/ HandleNew
    \/ HandleDestroyed
    \/ HandleUpdate
    \/ LoopExit
    \/ Interrupt
    \/ WaiterRecv
    \/ WaiterCleanup
    \/ WaiterExit

\* The waiter runs on a thread of the runtime's blocking pool, which the
\* operating system keeps scheduling.
SpecShutdown ==
    /\ InitShutdownSpec
    /\ [][NextShutdown]_vars
    /\ WF_vars(WaiterRecv)
    /\ WF_vars(WaiterCleanup)
    /\ WF_vars(WaiterExit)

\* =========================================================== unique_id
\* Number of calls of unique_id in one run.
MaxIdCalls == 4

not_id_vars ==
    <<lifecycle_vars, bridge_vars, shutdown_vars, runtime_vars, geometry_vars>>

\* The calls begun so far.
IdCalls == Len(id_returned) + Cardinality({t \in Threads : id_pc[t] # "idle"})

RECURSIVE MaxValue(_)
MaxValue(rs) ==
    IF rs = <<>> THEN 0
    ELSE LET m == MaxValue(Tail(rs))
         IN  IF Head(rs).value > m THEN Head(rs).value ELSE m

\* A thread calls Ironbar::unique_id().
IdCall(t) ==
    /\ id_pc[t] = "idle"
    /\ IdCalls < MaxIdCalls
    /\ id_pc' = [id_pc EXCEPT ![t] = "called"]
    /\ id_floor' = [id_floor EXCEPT ![t] = MaxValue(id_returned)]
    /\ UNCHANGED <<COUNTER, id_val, id_returned>>
    /\ UNCHANGED not_id_vars

\* A plain load in place of the read-modify-write.
IdLoad(t) ==
    /\ id_pc[t] = "called"
    /\ id_val' = [id_val EXCEPT ![t] = COUNTER]
    /\ id_pc' = [id_pc EXCEPT ![t] = "fetched"]
    /\ UNCHANGED <<COUNTER, id_floor, id_returned>>
    /\ UNCHANGED not_id_vars

\* COUNTER.fetch_add(1, Ordering::Relaxed): one atomic step that yields the
\* old value.  The counter wraps at the width of usize, far beyond the
\* calls of a bounded run.
IdFetchAdd(t) ==
    /\ id_pc[t] = "called"
    /\ id_val' = [id_val EXCEPT ![t] = COUNTER]
    /\ COUNTER' = COUNTER + 1
    /\ id_pc' = [id_pc EXCEPT ![t] = "fetched"]
    /\ UNCHANGED <<id_floor, id_returned>>
    /\ UNCHANGED not_id_vars

\* The call returns the fetched value.
IdReturn(t) ==
    /\ id_pc[t] = "fetched"
    /\ id_returned' = Append(id_returned,
                             [value |-> id_val[t], floor |-> id_floor[t],
                              thread |-> t])
    /\ id_pc' = [id_pc EXCEPT ![t] = "idle"]
    /\ UNCHANGED <<COUNTER, id_val, id_floor>>
    /\ UNCHANGED not_id_vars

NextId ==
    \/ \E t \in Threads : IdCall(t)
    \/ \E t \in Threads : IdFetchAdd(t)
    \/ \E t \in Threads : IdReturn(t)

SpecId == Idle /\ [][NextId]_vars

\* ============================================================= runtime
\* Number of calls of the accessor in one run.
MaxRuntimeCalls == 4

not_runtime_vars ==
    <<lifecycle_vars, bridge_vars, shutdown_vars, id_vars, geometry_vars>>

\* The functions that reach Ironbar::runtime().
Accessors == {"runtime", "spawn", "spawn_blocking", "await_sync"}

\* A thread calls the accessor, directly or through a helper.
RtCall(t) ==
    /\ rt_pc[t] = "idle"
    /\ rt_calls < MaxRuntimeCalls
    /\ \E via \in Accessors : rt_via' = [rt_via EXCEPT ![t] = via]
    /\ rt_pc' = [rt_pc EXCEPT ![t] = "entered"]
    /\ rt_calls' = rt_calls + 1
    /\ UNCHANGED <<RUNTIME, rt_initializer, rt_got, rt_created>>
    /\ UNCHANGED not_runtime_vars

\* A check of the cell followed by an initialisation no lock guards.
RtGetOrInitUnguarded(t) ==
    /\ rt_pc[t] = "entered"
    /\ IF RUNTIME # NoneV
       THEN /\ rt_got' = [rt_got EXCEPT ![t] = RUNTIME]
            /\ rt_pc' = [rt_pc EXCEPT ![t] = "done"]
       ELSE /\ rt_pc' = [rt_pc EXCEPT ![t] = "initializing"]
            /\ UNCHANGED rt_got
    /\ UNCHANGED <<RUNTIME, rt_initializer, rt_via, rt_created, rt_calls>>
    /\ UNCHANGED not_runtime_vars

\* RUNTIME.get_or_init(..): a set cell is returned at once; an unset cell is
\* initialised by the one thread that takes the lock, and every other caller
\* blocks until the initialiser is done.
RtGetOrInit(t) ==
    /\ rt_pc[t] \in {"entered", "waiting"}
    /\ IF RUNTIME # NoneV
       THEN /\ rt_got' = [rt_got EXCEPT ![t] = RUNTIME]
            /\ rt_pc' = [rt_pc EXCEPT ![t] = "done"]
            /\ UNCHANGED rt_initializer
       ELSE IF rt_initializer = NoneV
       THEN /\ rt_initializer' = Some(t)
            /\ rt_pc' = [rt_pc EXCEPT ![t] = "initializing"]
            /\ UNCHANGED rt_got
       ELSE /\ rt_pc[t] = "entered"
            /\ rt_pc' = [rt_pc EXCEPT ![t] = "waiting"]
            /\ UNCHANGED <<rt_got, rt_initializer>>
    /\ UNCHANGED <<RUNTIME, rt_via, rt_created, rt_calls>>
    /\ UNCHANGED not_runtime_vars

\* Arc::new(create_runtime()): the builder yields a runtime, which fills the
\* cell, or fails, and the expect panics in the calling thread with the cell
\* left unset.
RtCreate(t) ==
    /\ rt_pc[t] = "initializing"
    /\ \E built \in BOOLEAN :
         IF built
         THEN /\ rt_created' = rt_created + 1
              /\ RUNTIME' = Some(rt_created + 1)
              /\ rt_got' = [rt_got EXCEPT ![t] = Some(rt_created + 1)]
              /\ rt_pc' = [rt_pc EXCEPT ![t] = "done"]
         ELSE /\ rt_pc' = [rt_pc EXCEPT ![t] = "panicked"]
              /\ UNCHANGED <<RUNTIME, rt_got, rt_created>>
    /\ rt_initializer' = NoneV
    /\ UNCHANGED <<rt_via, rt_calls>>
    /\ UNCHANGED not_runtime_vars

\* The caller has its clone of the handle and goes on.
RtReturn(t) ==
    /\ rt_pc[t] = "done"
    /\ rt_pc' = [rt_pc EXCEPT ![t] = "idle"]
    /\ UNCHANGED <<RUNTIME, rt_initializer, rt_via, rt_got, rt_created,
                   rt_calls>>
    /\ UNCHANGED not_runtime_vars

NextRuntime ==
    \/ \E t \in Threads : RtCall(t)
    \/ \E t \in Threads : RtGetOrInit(t)
    \/ \E t \in Threads : RtCreate(t)
    \/ \E t \in Threads : RtReturn(t)

SpecRuntime == Idle /\ [][NextRuntime]_vars

\* ============================================================ geometry
not_geometry_vars ==
    <<lifecycle_vars, bridge_vars, shutdown_vars, id_vars, runtime_vars>>

Orientations == {"Horizontal", "Vertical"}

\* WidgetGeometry.
WidgetGeometry(pos, size, bar_size) ==
    [position |-> pos, size |-> size, bar_size |-> bar_size]

\* IronbarGtkExt::geometry.
geometry(w, orientation) ==
    LET allocation == w.allocation
        widget_size ==
            IF orientation = "Horizontal"
            THEN allocation.width ELSE allocation.height
    IN  IF w.root = NoneV
        THEN Panic    \* expect("Failed to get root widget")
        ELSE
        LET top_level_allocation == w.root[1]
            bar_size ==
                IF orientation = "Horizontal"
                THEN top_level_allocation.width
                ELSE top_level_allocation.height
            \* unwrap_or((0.0, 0.0))
            xy == IF w.translate = NoneV THEN <<0, 0>> ELSE w.translate[1]
            widget_pos == IF orientation = "Horizontal" THEN xy[1] ELSE xy[2]
        IN  Ok(WidgetGeometry(widget_pos, widget_size, bar_size))

\* A caller queries the widget's geometry for a bar of some orientation.
QueryGeometry ==
    /\ \E orientation \in Orientations :
         geometry_result' = Some([orientation |-> orientation,
                                  outcome |-> geometry(widget, orientation)])
    /\ UNCHANGED widget
    /\ UNCHANGED not_geometry_vars

InitGeometrySpec ==
    /\ IdleLifecycle
    /\ InitBridge
    /\ InitShutdown(FALSE)
    /\ InitId
    /\ InitRuntime
    /\ InitGeometry(Widgets)

NextGeometry == QueryGeometry

SpecGeometry == InitGeometrySpec /\ [][NextGeometry]_vars

\* ================================================================= claims
LastIs(event_type) == last.kind = "Event" /\ last.event.event_type = event_type

\* The bars of `bs` whose monitor name is not `name`, in their order.
Without(bs, name) == SelectSeq(bs, LAMBDA b : b.monitor_name # name)

\* ---------------------------------------------------------------------
\* C1 (activation barrier).  As long as the lifecycle task has not received
\* the hold token, no output event has been taken off the subscription and
\* the registry is untouched, however many events are queued; and the task
\* holds a token only after the activate handler ran and sent it.
C1_ActivationBarrier ==
    /\ ~hold => /\ handled = 0
                /\ last = NoLast
                /\ bars = <<>>
                /\ Len(rx_outputs) = arrivals
    /\ hold => running /\ activations >= 1 /\ handlers >= 1

\* The activate handler has run and sent the token while events were already
\* queued; the task has not received the token and the events are held back.
C1_Witness ==
    /\ ~hold
    /\ activate_chan = 1
    /\ rx_outputs # <<>>
    /\ Len(rx_outputs) = arrivals

\* ---------------------------------------------------------------------
\* C2 (FIFO, one at a time).  The k-th event handled is the k-th event that
\* arrived, and the events still queued are the following arrivals in
\* arrival order: nothing is skipped, merged or taken out of turn.
C2_FifoOrder ==
    /\ last.kind = "Event" => last.event.seq = handled
    /\ handled = 0 => last = NoLast
    /\ handled + Len(rx_outputs) = arrivals
    /\ \A i \in 1..Len(rx_outputs) : rx_outputs[i].seq = handled + i

\* Two events have been handled while a third was already queued.
C2_Witness == handled = 2 /\ last.event.seq = 2 /\ rx_outputs # <<>>

\* ---------------------------------------------------------------------
\* C3 (filter correctness of Destroyed).  After a Destroyed event with output
\* name N the registry is the registry before it without every bar whose
\* monitor name is N, the other bars in their order.
C3_DestroyedFilters ==
    (LastIs("Destroyed") /\ last.event.output.name # NoneV)
        => bars = Without(last.before, last.event.output.name[1])

\* A Destroyed event removed two bars of its monitor and left another.
C3_Witness ==
    /\ LastIs("Destroyed")
    /\ last.event.output.name # NoneV
    /\ Len(last.before) - Len(bars) >= 2
    /\ bars # <<>>

\* ---------------------------------------------------------------------
\* C4 (idempotent destroy).  A Destroyed event that matches no bar (no name,
\* or a name no bar carries) leaves the registry unchanged and is no error;
\* and a Destroyed event handled right after an equal Destroyed event
\* changes nothing.
Matches(bs, output) ==
    /\ output.name # NoneV
    /\ \E i \in 1..Len(bs) : bs[i].monitor_name = output.name[1]

C4_UnmatchedDestroyed ==
    (LastIs("Destroyed") /\ ~Matches(last.before, last.event.output))
        => /\ bars = last.before
           /\ last.result \in {"Ignored", "Filtered"}
           /\ proc = "running"

C4_RepeatedDestroyed ==
    (/\ HandleDestroyed
     /\ LastIs("Destroyed")
     /\ last.event.output = NextEvent.output) => bars' = bars

C4_IdempotentDestroy ==
    [](C4_UnmatchedDestroyed) /\ [][C4_RepeatedDestroyed]_vars

\* A Destroyed event for a named output found a non-empty registry holding
\* no bar of that output.
C4_Witness ==
    /\ LastIs("Destroyed")
    /\ last.event.output.name # NoneV
    /\ last.before # <<>>
    /\ ~Matches(last.before, last.event.output)

\* ---------------------------------------------------------------------
\* C5 (missing name skip).  A New event without an output name creates no
\* bar, leaves the registry unchanged and ends in a logged error, not in the
\* end of the process, whatever the configuration and the display.
C5_MissingNameSkip ==
    (LastIs("New") /\ last.event.output.name = NoneV)
        => /\ bars = last.before
           /\ last.result = "Error"
           /\ proc = "running"

\* An unnamed New event was handled where the display has no monitor at the
\* output's position and the default bar is configured.
C5_Witness ==
    /\ LastIs("New")
    /\ last.event.output.name = NoneV
    /\ monitor_at_point(display, position(last.event.output)) = NoneV
    /\ show_default_bar(config)

\* ---------------------------------------------------------------------
\* Shorthands for the claims about New events.
LastNamedNew == LastIs("New") /\ last.event.output.name # NoneV

LastName == last.event.output.name[1]

\* The bars the last event added to the registry.
Added == SubSeq(bars, Len(last.before) + 1, Len(bars))

\* The registry grew at its end only.
Extends == /\ Len(bars) >= Len(last.before)
           /\ SubSeq(bars, 1, Len(last.before)) = last.before

\* The configured per-monitor entry of the last event's monitor, read off the
\* configuration directly.
Listed == config.monitors # NoneV /\ LastName \in DOMAIN config.monitors[1]

ListedEntry == config.monitors[1][LastName]

AnyRegion == config.start \/ config.center \/ config.end

\* The display has a monitor at the last event's position.
MonitorThere ==
    IF last.event.output.logical_position = NoneV THEN P0 \in display
    ELSE last.event.output.logical_position[1] \in display

\* ---------------------------------------------------------------------
\* C6 as stated (configuration tie-break for unlisted monitors).  A New
\* event for a named monitor without a per-monitor entry appends exactly one
\* bar if a default region is configured and no bar otherwise.
C6_Original ==
    (LastNamedNew /\ ~Listed)
        => /\ Extends
           /\ Len(Added) = IF AnyRegion THEN 1 ELSE 0

\* C6 as amended.  For such an event: with no monitor at the output's
\* position handling is fatal and nothing is appended; otherwise, with no
\* default region configured nothing is appended and handling succeeds; with
\* a default region configured either the one creation succeeds and exactly
\* one bar, carrying the monitor name, is appended, or it fails and nothing
\* is appended.
C6_UnlistedMonitor ==
    (LastNamedNew /\ ~Listed)
        => /\ Extends
           /\ (last.result = "Panic") = ~MonitorThere
           /\ last.result = "Appended"
                => /\ Len(Added) = IF AnyRegion THEN 1 ELSE 0
                   /\ \A i \in 1..Len(Added) : Added[i].monitor_name = LastName
           /\ last.result # "Appended" => Added = <<>>
           /\ last.result = "Error" => AnyRegion

\* An unlisted monitor got its one default bar where only `center` is
\* configured.
C6_Witness ==
    /\ LastNamedNew
    /\ ~Listed
    /\ config.center /\ ~config.start /\ ~config.end
    /\ last.result = "Appended"
    /\ Len(Added) = 1

\* ---------------------------------------------------------------------
\* C7 as stated (multiple-bar fan-out).  A New event for a monitor mapped to
\* a list of k configurations appends exactly k bars, in list order, all
\* carrying the monitor name, with pairwise different bar names.
IsList == Listed /\ ListedEntry.kind = "Multiple"

EntryConfigs ==
    IF ListedEntry.kind = "Single" THEN <<ListedEntry.config>>
    ELSE ListedEntry.configs

C8_Original ==
    (LastNamedNew /\ Listed)
        => /\ Extends
           /\ Len(Added) = Len(EntryConfigs)
           /\ \A i \in 1..Len(Added) : Added[i].name = EntryConfigs[i].name

\* C8 as amended.  When a monitor exists at the output's position and every
\* creation succeeds, the bars appended are exactly those of the entry, one
\* per configuration and none for an empty list, whatever the default
\* regions are; in every other case nothing is appended, again whatever the
\* default regions are.
C8_ExplicitEntryWins ==
    (LastNamedNew /\ Listed)
        => /\ Extends
           /\ (last.result = "Panic") = ~MonitorThere
           /\ last.result = "Appended"
                => /\ Len(Added) = Len(EntryConfigs)
                   /\ \A i \in 1..Len(Added) :
                        /\ Added[i].monitor_name = LastName
                        /\ Added[i].name = EntryConfigs[i].name
           /\ last.result # "Appended" => Added = <<>>
           /\ last.result = "Error" => EntryConfigs # <<>>

\* An empty list won over a configured default: the event succeeded and
\* added no bar.
C8_Witness ==
    /\ LastNamedNew
    /\ Listed
    /\ AnyRegion
    /\ EntryConfigs = <<>>
    /\ last.result = "Appended"
    /\ Added = <<>>

\* ---------------------------------------------------------------------
\* C9 (registry uniqueness).  No two bars of the registry share the pair
\* (monitor name, bar name).
C9_RegistryUnique ==
    \A i, j \in 1..Len(bars) :
        i # j => <<bars[i].monitor_name, bars[i].name>>
                    # <<bars[j].monitor_name, bars[j].name>>

\* ---------------------------------------------------------------------
\* C10 (bar liveness).  Once every delivered event has been handled, every
\* bar of the registry carries the name of an output with a New event and no
\* later Destroyed event; and right after a Destroyed event for name N the
\* registry holds no bar of monitor N.
C10_BarsOfLiveOutputs ==
    /\ rx_outputs = <<>>
         => \A i \in 1..Len(bars) : bars[i].monitor_name \in live
    /\ (LastIs("Destroyed") /\ last.event.output.name # NoneV)
         => \A i \in 1..Len(bars) : bars[i].monitor_name # LastName

\* Every delivered event is handled, the last one a Destroyed event that
\* removed the bars of its output and left those of a live one.
C10_Witness ==
    /\ rx_outputs = <<>>
    /\ handled = arrivals
    /\ LastIs("Destroyed")
    /\ last.event.output.name # NoneV
    /\ Len(last.before) > Len(bars)
    /\ bars # <<>>

C12_UiLoopNeverStuck == proc # "blocked"

\* ---------------------------------------------------------------------
\* The process has ended.
Terminated == proc \notin {"running", "blocked"}

\* The waiter's order: receive, cleanup, exit(0).
C13_WaiterSafety ==
    /\ waiter_pc # "waiting" => interrupts >= 1 /\ handlers >= 1 /\ running
    /\ ipc_released => ipc /\ waiter_pc = "cleaned"
    /\ waiter_exit # <<>>
         => /\ waiter_exit = <<0>>
            /\ proc = "exited"
            /\ waiter_pc = "cleaned"
            /\ ipc => ipc_released
    /\ (proc = "exited" /\ handlers >= 1) => waiter_exit = <<0>>

\* C13 (signal-driven shutdown).  The waiter leaves its receive only after
\* an interrupt reached the handler the activate handler installed; it ends
\* the process with exit code 0 only after the cleanup, which releases the
\* IPC resources when the feature is enabled; and once an interrupt has
\* reached the handler the process eventually terminates.
C13_SignalShutdown ==
    /\ [](C13_WaiterSafety)
    /\ (sig_chan > 0) ~> Terminated

\* After activation, with the manager Ready, an interrupt ended the process
\* through the waiter, the IPC resources released.
C13_Witness ==
    /\ hold
    /\ ipc
    /\ ipc_released
    /\ waiter_exit = <<0>>
    /\ proc = "exited"

\* ---------------------------------------------------------------------
\* C14 (unique ID generator).  Every call returns a value greater than every
\* value returned before the call began; the values start at 1; and any two
\* calls, concurrent ones included, get different values.
C14_UniqueId ==
    /\ \A i \in 1..Len(id_returned) :
         /\ id_returned[i].value > id_returned[i].floor
         /\ id_returned[i].value >= 1
    /\ \A i, j \in 1..Len(id_returned) :
         i # j => id_returned[i].value # id_returned[j].value
    /\ \A t \in Threads :
         id_pc[t] = "fetched"
           => /\ id_val[t] > id_floor[t]
              /\ \A i \in 1..Len(id_returned) : id_returned[i].value # id_val[t]
              /\ \A u \in Threads \ {t} :
                   id_pc[u] = "fetched" => id_val[u] # id_val[t]
    /\ LET given == {id_returned[i].value : i \in 1..Len(id_returned)}
                       \cup {id_val[t] : t \in {u \in Threads :
                                                   id_pc[u] = "fetched"}}
       IN  given # {} => 1 \in given

\* Two calls overlapped and returned out of fetch order: the value 2 was
\* returned first and the value 1 after it, by another thread.
C14_Witness ==
    /\ Len(id_returned) >= 2
    /\ id_returned[1].value = 2
    /\ id_returned[2].value = 1
    /\ id_returned[1].thread # id_returned[2].thread

\* ---------------------------------------------------------------------
\* C15 (runtime singleton).  At most one runtime is ever built, none before
\* the first call of the accessor, and every call that returns, through
\* whichever function and on whichever thread, returns the handle of that one
\* runtime.
C15_RuntimeSingleton ==
    /\ rt_created <= 1
    /\ rt_calls = 0 => rt_created = 0
    /\ rt_created = 0 <=> RUNTIME = NoneV
    /\ \A t \in Threads :
         /\ rt_pc[t] = "done" => rt_got[t] # NoneV
         /\ rt_got[t] # NoneV => rt_got[t] = RUNTIME /\ rt_created = 1
    /\ \A t, u \in Threads :
         rt_got[t] # NoneV /\ rt_got[u] # NoneV => rt_got[t] = rt_got[u]

\* Three first calls overlapped: one thread built the runtime while the two
\* others were inside the accessor, one of them blocked on the lock, and
\* all three hold the same handle, reached through different functions.
C15_Witness ==
    /\ rt_created = 1
    /\ rt_calls = Cardinality(Threads)
    /\ \A t \in Threads : rt_pc[t] \in {"done", "waiting"}
    /\ \E t \in Threads : rt_pc[t] = "waiting"
    /\ \E t, u \in Threads :
         /\ rt_pc[t] = "done" /\ rt_pc[u] = "done"
         /\ rt_via[t] = "spawn" /\ rt_via[u] = "await_sync"
         /\ rt_got[t] = rt_got[u]

\* ---------------------------------------------------------------------
\* C16 (geometry degradation).  For every widget and orientation the query
\* returns a value: its position is 0 when the translation to the root is
\* unavailable and otherwise the translated x (horizontal) or y (vertical),
\* and size and bar_size are the widget's and the root's extent along the
\* same axis.
C16_GeometryTotal ==
    geometry_result # NoneV =>
        LET q == geometry_result[1]
            horizontal == q.orientation = "Horizontal"
        IN  /\ q.outcome.kind = "Ok"
            /\ q.outcome.value.position =
                 IF widget.translate = NoneV THEN 0
                 ELSE IF horizontal THEN widget.translate[1][1]
                 ELSE widget.translate[1][2]
            /\ q.outcome.value.size =
                 IF horizontal THEN widget.allocation.width
                 ELSE widget.allocation.height
            /\ widget.root # NoneV
            /\ q.outcome.value.bar_size =
                 IF horizontal THEN widget.root[1].width
                 ELSE widget.root[1].height

\* ---------------------------------------------------------------------
\* C17 (Update is a no-op).  After an Update event is handled the registry
\* is exactly what it was before the event, nothing failed, and the manager
\* is still in its loop: whatever event is queued next can be handled.
C17_UpdateNoop ==
    LastIs("Update")
        => /\ bars = last.before
           /\ last.result = "Noop"
           /\ proc = "running"
           /\ task \in {"Ready", "Exited"}
           /\ rx_outputs # <<>>
                => ENABLED (HandleNew \/ HandleDestroyed \/ HandleUpdate)

\* An Update for a monitor that has a bar was handled, the bar is still
\* there, and another event is waiting.
C17_Witness ==
    /\ LastIs("Update")
    /\ last.event.output.name # NoneV
    /\ \E i \in 1..Len(bars) : bars[i].monitor_name = LastName
    /\ rx_outputs # <<>>

\* ---------------------------------------------------------------------
\* The step that handles a New event ending in a recoverable error.
C18_ErrorStep ==
    (/\ handled' = handled + 1
     /\ last'.event.event_type = "New"
     /\ last'.result = "Error")
        => /\ bars' = bars
           /\ config' = config
           /\ display' = display
           /\ task' = task
           /\ proc' = proc
           /\ rx_outputs' = Tail(rx_outputs)

\* The state such a step leaves.
C18_ErrorState ==
    (LastIs("New") /\ last.result = "Error")
        => /\ bars = last.before
           /\ proc = "running"
           /\ task \in {"Ready", "Exited"}
           /\ rx_outputs # <<>>
                => ENABLED (HandleNew \/ HandleDestroyed \/ HandleUpdate)

\* C18 (error isolation between outputs).  When a New event ends in a
\* recoverable error, the step that handles it changes nothing a later
\* event's handling reads (registry, configuration, display, task and
\* process state), so later events have the effect they would have had
\* without it; afterwards the manager is still in its loop and whatever
\* event is queued next can be handled.
C18_ErrorIsolation == [](C18_ErrorState) /\ [][C18_ErrorStep]_vars

\* The second creation of a two-bar list failed with bars already in the
\* registry, and another event is waiting.
C18_Witness ==
    /\ LastNamedNew
    /\ last.result = "Error"
    /\ last.before # <<>>
    /\ bars = last.before
    /\ rx_outputs # <<>>

\* ---------------------------------------------------------------------
\* The state a fatal lookup leaves.
C19_FatalState ==
    (LastNamedNew /\ ~MonitorThere)
        => /\ last.result = "Panic"
           /\ proc = "panicked"
           /\ bars = last.before

\* Nothing is handled after the panic.
C19_NothingAfter ==
    proc = "panicked"
        => /\ proc' = "panicked"
           /\ handled' = handled
           /\ bars' = bars
           /\ rx_outputs' = rx_outputs

\* C19 (fatal monitor lookup).  For every New event with a name, whatever
\* the configuration resolves to, if the display has no monitor at the
\* output's position (the origin when the position is absent) handling
\* panics, no bar is appended and no later event is handled.
C19_FatalLookup == [](C19_FatalState) /\ [][C19_NothingAfter]_vars

\* The lookup failed for a monitor whose entry is the empty list, with bars
\* in the registry and another event waiting.
C19_Witness ==
    /\ LastNamedNew
    /\ ~MonitorThere
    /\ Listed
    /\ ListedEntry = Multiple(<<>>)
    /\ last.before # <<>>
    /\ proc = "panicked"
    /\ rx_outputs # <<>>

\* ---------------------------------------------------------------------
\* The number of bars the configuration resolves to for the last event's
\* monitor, read off the configuration directly.
Resolved ==
    IF Listed
    THEN IF ListedEntry.kind = "Single" THEN 1 ELSE Len(ListedEntry.configs)
    ELSE IF AnyRegion THEN 1 ELSE 0

\* C20 (New is all-or-nothing on the registry).  After a New event the
\* registry is either exactly what it was before the event, or it is the one
\* before the event followed by a bar for every configuration resolved for
\* the monitor; a failed creation leaves it exactly as before.
C20_AllOrNothing ==
    LastNamedNew
        => /\ last.result # "Appended" => bars = last.before
           /\ last.result = "Appended"
                => /\ Extends
                   /\ Len(Added) = Resolved
           /\ bars = last.before \/ (Extends /\ Len(Added) = Resolved)

\* A creation failed for a monitor with a two-bar list while the registry
\* held bars, and the registry is as before.
C20_Witness ==
    /\ LastNamedNew
    /\ Listed
    /\ ListedEntry.kind = "Multiple"
    /\ Len(ListedEntry.configs) = 2
    /\ last.result = "Error"
    /\ last.before # <<>>
    /\ bars = last.before

\* ---------------------------------------------------------------------
\* The hold tokens sent so far: those still in the channel and the one the
\* lifecycle task took.
TokensSent == activate_chan + (IF hold THEN 1 ELSE 0)

\* What the activate signals so far have set up.
C21_AtMostOnce ==
    /\ TokensSent <= 1
    /\ waiters <= 1
    /\ handlers <= 1
    /\ running <=> activations >= 1
    /\ (waiters = 1 \/ handlers = 1 \/ TokensSent = 1)
         => running /\ waiters = 1 /\ handlers = 1 /\ TokensSent = 1

\* An activate signal after the first changes nothing but the count of
\* signals.
C21_LaterSignal ==
    (activations' = activations + 1 /\ activations >= 1)
        => UNCHANGED <<running, waiters, handlers, activate_chan, hold, task,
                       proc, bars, rx_outputs, handled, last>>

\* The manager enters Ready from AwaitingActivation only and never goes back
\* to waiting for activation.
C21_ReadyOnce ==
    /\ task # "AwaitingActivation" => task' # "AwaitingActivation"
    /\ (task # "Ready" /\ task' = "Ready") => task = "AwaitingActivation"

\* C21 (one-time activation).  Only the first activate signal initialises;
\* every later one returns without effect, so at most one hold token is
\* sent, at most one shutdown waiter is spawned, at most one interrupt
\* handler is installed, and the manager enters Ready at most once.
C21_OneTimeActivation ==
    /\ [](C21_AtMostOnce)
    /\ [][C21_LaterSignal /\ C21_ReadyOnce]_vars

\* A second activate signal came after the manager had become Ready and
\* handled an event; there is still one waiter, one handler and one token.
C21_Witness ==
    /\ activations >= 2
    /\ running
    /\ hold
    /\ task = "Ready"
    /\ handled >= 1
    /\ waiters = 1
    /\ handlers = 1
    /\ activate_chan = 0

====
